---- MODULE Spec2Model ----
(***************************************************************************)
(* Blocking TSC (touch sensing controller) example for the STM32L0:        *)
(* examples/stm32l0/src/bin/tsc_blocking.rs.                               *)
(*                                                                         *)
(* The program is one async task (main) that initialises the controller,   *)
(* checks its state once and then loops forever: arm an acquisition, wait  *)
(* for the acquisition signal, discharge, settle, resolve the group value  *)
(* by bounded polling (read_touch_value), drive the LED and idle.          *)
(*                                                                         *)
(* Every statement of main and read_touch_value is one action; pc is the   *)
(* position of the task.  The TSC peripheral is the environment: it fires  *)
(* the acquisition signal and completes the group at times of its own.     *)
(***************************************************************************)
EXTENDS Integers, Sequences, FiniteSets, TLC

(***************************************************************************)
(* Program constants.                                                       *)
(***************************************************************************)
SENSOR_THRESHOLD == 25

MAX_GROUP_STATUS_READ_ATTEMPTS == 10

discharge_delay == 5

polling_interval == 100

ongoing_delay == 1

U16Max == 65535

(***************************************************************************)
(* Bound of the model: the raw counts the hardware may report are the      *)
(* extremes of u16, the values within Spread of the threshold, and a few   *)
(* counts well below and above it.                                         *)
(***************************************************************************)
Spread == 2

SampleCounts == {5, 10, 30}

RawCounts ==
    {0, U16Max} \cup SampleCounts
        \cup ((SENSOR_THRESHOLD - Spread) .. (SENSOR_THRESHOLD + Spread))

(***************************************************************************)
(* Option<u16>: None is the empty sequence, Some(v) the one-element one.    *)
(***************************************************************************)
None == << >>

Some(v) == << v >>

OptionU16 == {None} \cup {Some(v) : v \in RawCounts}

(***************************************************************************)
(* One entry of the log of operations the task has performed in the        *)
(* current cycle: the operation, the status it returned (if any) and its   *)
(* numeric argument or result (if any).                                    *)
(***************************************************************************)
Ev(op, st, n) == [op |-> op, st |-> st, n |-> n]

VARIABLES
    pc,               \* position of the main task
    tscState,         \* what touch_controller.get_state() reports after new_blocking
    activeMask,       \* the controller's active channel mask
    acqSignal,        \* the acquisition signal of the started acquisition has fired
    hwStatus,         \* group status of G1
    hwValue,          \* group counter of G1
    discharging,      \* discharge of the IOs requested
    led,              \* level of the LED output (PA5)
    attempt,          \* loop variable of the for loop of read_touch_value
    result,           \* what read_touch_value returned
    trace,            \* operations performed since the top of the loop body
    acqStarted,       \* start() has been called at least once
    observedComplete, \* a status read has returned Complete since the last start()
    ledBefore         \* level of the LED before the last write by the match of
                      \* main; "Unset" while the match has never run

vars ==
    << pc, tscState, activeMask, acqSignal, hwStatus, hwValue, discharging,
       led, attempt, result, trace, acqStarted, observedComplete, ledBefore >>

hwVars == << acqSignal, hwStatus, hwValue, discharging >>

PcValues ==
    { "get_state", "halted", "led_new", "set_mask", "start", "poll_acq",
      "discharge", "settle", "call_rtv", "rtv_for", "rtv_status", "rtv_value",
      "rtv_wait", "rtv_none", "match", "idle" }

TypeOK ==
    /\ pc \in PcValues
    /\ tscState \in {"Ready", "NotReady"}
    /\ activeMask \in {"none", "G1_IO2"}
    /\ acqSignal \in BOOLEAN
    /\ hwStatus \in {"Ongoing", "Complete"}
    /\ hwValue \in RawCounts
    /\ discharging \in BOOLEAN
    /\ led \in {"Unset", "High", "Low"}
    /\ attempt \in 0 .. (MAX_GROUP_STATUS_READ_ATTEMPTS + 1)
    /\ result \in OptionU16
    /\ acqStarted \in BOOLEAN
    /\ observedComplete \in BOOLEAN
    /\ ledBefore \in {"Unset", "High", "Low"}

(***************************************************************************)
(* The state after Tsc::new_blocking(..).unwrap() has returned (line 80).  *)
(***************************************************************************)
Init ==
    /\ pc = "get_state"
    /\ tscState \in {"Ready", "NotReady"}
    /\ activeMask = "none"
    /\ acqSignal = FALSE
    /\ hwStatus = "Ongoing"
    /\ hwValue = 0
    /\ discharging = FALSE
    /\ led = "Unset"
    /\ attempt = 0
    /\ result = None
    /\ trace = << >>
    /\ acqStarted = FALSE
    /\ observedComplete = FALSE
    /\ ledBefore = "Unset"

(***************************************************************************)
(* main, before the loop.                                                   *)
(***************************************************************************)
\* if touch_controller.get_state() != State::Ready { panic!(..) }
\* the check without the panic
StateCheckNoHalt(s) == "led_new"

StateCheckTarget(s) == IF s # "Ready" THEN "halted" ELSE "led_new"

CheckState ==
    /\ pc = "get_state"
    /\ pc' = StateCheckTarget(tscState)
    /\ trace' = Append(trace, Ev("get_state", tscState, 0))
    /\ UNCHANGED << ledBefore, tscState, activeMask, hwVars, led, attempt, result,
                    acqStarted, observedComplete >>

\* the LED created with Level::Low
LedNewLow ==
    /\ pc = "led_new"
    /\ led' = "Low"
    /\ pc' = "set_mask"
    /\ UNCHANGED << ledBefore, tscState, activeMask, hwVars, attempt, result, trace,
                    acqStarted, observedComplete >>

\* let mut led = Output::new(context.PA5, Level::High, Speed::Low);
LedNew ==
    /\ pc = "led_new"
    /\ led' = "High"
    /\ pc' = "set_mask"
    /\ UNCHANGED << ledBefore, tscState, activeMask, hwVars, attempt, result, trace,
                    acqStarted, observedComplete >>

(***************************************************************************)
(* main, the loop body up to the call of read_touch_value.                  *)
(***************************************************************************)
\* the mask set in the first cycle only, as if hoisted out of the loop
SetActiveChannelsMaskOnce ==
    /\ pc = "set_mask"
    /\ activeMask' = (IF acqStarted THEN activeMask ELSE "G1_IO2")
    /\ trace' = (IF acqStarted THEN << >>
                 ELSE << Ev("set_active_channels_mask", "", 0) >>)
    /\ pc' = "start"
    /\ UNCHANGED << ledBefore, tscState, hwVars, led, attempt, result, acqStarted,
                    observedComplete >>

\* touch_controller.set_active_channels_mask(tsc_sensor.pin.into());
\* The first statement of the loop body: the log of the cycle starts here.
SetActiveChannelsMask ==
    /\ pc = "set_mask"
    /\ activeMask' = "G1_IO2"
    /\ trace' = << Ev("set_active_channels_mask", "", 0) >>
    /\ pc' = "start"
    /\ UNCHANGED << ledBefore, tscState, hwVars, led, attempt, result, acqStarted,
                    observedComplete >>

\* touch_controller.start();
Start ==
    /\ pc = "start"
    /\ acqSignal' = FALSE
    /\ hwStatus' = "Ongoing"
    /\ hwValue' = 0
    /\ discharging' = FALSE
    /\ acqStarted' = TRUE
    /\ observedComplete' = FALSE
    /\ trace' = Append(trace, Ev("start", "", 0))
    /\ pc' = "poll_acq"
    /\ UNCHANGED << ledBefore, tscState, activeMask, led, attempt, result >>

\* a check of the signal that does not block
PollForAcquisitionNoWait ==
    /\ pc = "poll_acq"
    /\ trace' = Append(trace, Ev("poll_for_acquisition", "", 0))
    /\ pc' = "discharge"
    /\ UNCHANGED << ledBefore, tscState, activeMask, hwVars, led, attempt, result,
                    acqStarted, observedComplete >>

\* touch_controller.poll_for_acquisition(); blocks until the signal has fired
PollForAcquisition ==
    /\ pc = "poll_acq"
    /\ acqSignal
    /\ trace' = Append(trace, Ev("poll_for_acquisition", "", 0))
    /\ pc' = "discharge"
    /\ UNCHANGED << ledBefore, tscState, activeMask, hwVars, led, attempt, result,
                    acqStarted, observedComplete >>

\* touch_controller.discharge_io(true);
DischargeIo ==
    /\ pc = "discharge"
    /\ discharging' = TRUE
    /\ trace' = Append(trace, Ev("discharge_io", "", 1))
    /\ pc' = "settle"
    /\ UNCHANGED << ledBefore, tscState, activeMask, acqSignal, hwStatus, hwValue, led,
                    attempt, result, acqStarted, observedComplete >>

\* the settle wait left out
SettleWaitSkipped ==
    /\ pc = "settle"
    /\ pc' = "call_rtv"
    /\ UNCHANGED << ledBefore, tscState, activeMask, hwVars, led, attempt, result,
                    trace, acqStarted, observedComplete >>

\* Timer::after_millis(discharge_delay).await;
SettleWait ==
    /\ pc = "settle"
    /\ trace' = Append(trace, Ev("Timer", "", discharge_delay))
    /\ pc' = "call_rtv"
    /\ UNCHANGED << ledBefore, tscState, activeMask, hwVars, led, attempt, result,
                    acqStarted, observedComplete >>

(***************************************************************************)
(* read_touch_value.                                                        *)
(***************************************************************************)
\* the call, and the creation of the range 0..MAX_GROUP_STATUS_READ_ATTEMPTS
CallReadTouchValue ==
    /\ pc = "call_rtv"
    /\ attempt' = 0
    /\ trace' = Append(trace, Ev("read_touch_value", "", 0))
    /\ pc' = "rtv_for"
    /\ UNCHANGED << ledBefore, tscState, activeMask, hwVars, led, result, acqStarted,
                    observedComplete >>

\* for _ in 0..MAX_GROUP_STATUS_READ_ATTEMPTS: is there another iteration?
\* an inclusive range, 0..=MAX_GROUP_STATUS_READ_ATTEMPTS
ForContinuesInclusive(i) == i <= MAX_GROUP_STATUS_READ_ATTEMPTS

ForContinues(i) == i < MAX_GROUP_STATUS_READ_ATTEMPTS

ForNext ==
    /\ pc = "rtv_for"
    /\ pc' = IF ForContinues(attempt) THEN "rtv_status" ELSE "rtv_none"
    /\ UNCHANGED << ledBefore, tscState, activeMask, hwVars, led, attempt, result, trace,
                    acqStarted, observedComplete >>

\* match touch_controller.group_get_status(sensor_pin.group()) { Complete => .., Ongoing => .. }
\* a wait between Complete and the value read: both arms go through the wait
StatusTargetWaitFirst(s) == "rtv_wait"

\* the arms of the match swapped
StatusTargetSwapped(s) == IF s = "Ongoing" THEN "rtv_value" ELSE "rtv_wait"

StatusTarget(s) == IF s = "Complete" THEN "rtv_value" ELSE "rtv_wait"

GroupGetStatus ==
    /\ pc = "rtv_status"
    /\ trace' = Append(trace, Ev("group_get_status", hwStatus, 0))
    /\ observedComplete' = (observedComplete \/ hwStatus = "Complete")
    /\ pc' = StatusTarget(hwStatus)
    /\ UNCHANGED << ledBefore, tscState, activeMask, hwVars, led, attempt, result,
                    acqStarted >>

\* return Some(touch_controller.group_get_value(sensor_pin.group()));
\* the value read without the return: the loop goes on
GroupGetValueNoReturn ==
    /\ pc = "rtv_value"
    /\ result' = Some(hwValue)
    /\ trace' = Append(trace, Ev("group_get_value", hwStatus, hwValue))
    /\ pc' = "rtv_wait"
    /\ UNCHANGED << ledBefore, tscState, activeMask, hwVars, led, attempt, acqStarted,
                    observedComplete >>

GroupGetValue ==
    /\ pc = "rtv_value"
    /\ result' = Some(hwValue)
    /\ trace' = Append(trace, Ev("group_get_value", hwStatus, hwValue))
    /\ pc' = "match"
    /\ UNCHANGED << ledBefore, tscState, activeMask, hwVars, led, attempt, acqStarted,
                    observedComplete >>

\* info!("Acquisition still ongoing"); Timer::after_millis(1).await; then the
\* next iteration of the for loop
\* the Ongoing arm also turning the LED off
OngoingWaitLedOff ==
    /\ pc = "rtv_wait"
    /\ led' = "Low"
    /\ trace' = Append(trace, Ev("Timer", "", ongoing_delay))
    /\ attempt' = attempt + 1
    /\ pc' = "rtv_for"
    /\ UNCHANGED << ledBefore, tscState, activeMask, hwVars, result, acqStarted,
                    observedComplete >>

\* the wait of the Ongoing arm taking discharge_delay instead of 1 ms
OngoingWaitLong ==
    /\ pc = "rtv_wait"
    /\ trace' = Append(trace, Ev("Timer", "", discharge_delay))
    /\ attempt' = attempt + 1
    /\ pc' = "rtv_for"
    /\ UNCHANGED << ledBefore, tscState, activeMask, hwVars, led, result, acqStarted,
                    observedComplete >>

OngoingWait ==
    /\ pc = "rtv_wait"
    /\ trace' = Append(trace, Ev("Timer", "", ongoing_delay))
    /\ attempt' = attempt + 1
    /\ pc' = "rtv_for"
    /\ UNCHANGED << ledBefore, tscState, activeMask, hwVars, led, result, acqStarted,
                    observedComplete >>

\* the loop is exhausted: None
\* exhaustion treated as fatal
ReturnNonePanics ==
    /\ pc = "rtv_none"
    /\ result' = None
    /\ pc' = "halted"
    /\ UNCHANGED << ledBefore, tscState, activeMask, hwVars, led, attempt, trace,
                    acqStarted, observedComplete >>

\* exhaustion answered by starting the acquisition again
ReturnNoneRestart ==
    /\ pc = "rtv_none"
    /\ result' = None
    /\ pc' = "start"
    /\ UNCHANGED << ledBefore, tscState, activeMask, hwVars, led, attempt, trace,
                    acqStarted, observedComplete >>

ReturnNone ==
    /\ pc = "rtv_none"
    /\ result' = None
    /\ pc' = "match"
    /\ UNCHANGED << ledBefore, tscState, activeMask, hwVars, led, attempt, trace,
                    acqStarted, observedComplete >>

(***************************************************************************)
(* main, the rest of the loop body.                                         *)
(***************************************************************************)
\* if v < SENSOR_THRESHOLD
\* the comparison with <= instead of <
IsTouchInclusive(v) == v <= SENSOR_THRESHOLD

IsTouch(v) == v < SENSOR_THRESHOLD

\* the None arm leaving the LED as it is
LedLevelKeepOnNone(r) ==
    IF r = None THEN led
    ELSE IF IsTouch(r[1]) THEN "High" ELSE "Low"

\* a release threshold above the touch threshold while the LED is on
LedLevelHysteresis(r) ==
    IF r = None THEN "Low"
    ELSE IF r[1] < (IF led = "High" THEN SENSOR_THRESHOLD + 2 ELSE SENSOR_THRESHOLD)
         THEN "High" ELSE "Low"

\* Some(v) => if v < SENSOR_THRESHOLD { set_high } else { set_low }, None => set_low
LedLevel(r) ==
    IF r = None THEN "Low"
    ELSE IF IsTouch(r[1]) THEN "High" ELSE "Low"

SetOp(level) == IF level = "High" THEN "set_high" ELSE "set_low"

MatchResult ==
    /\ pc = "match"
    /\ led' = LedLevel(result)
    /\ ledBefore' = led
    /\ trace' = Append(trace, Ev(SetOp(LedLevel(result)), "", 0))
    /\ pc' = "idle"
    /\ UNCHANGED << tscState, activeMask, hwVars, attempt, result, acqStarted,
                    observedComplete >>

\* Timer::after_millis(polling_interval).await; then the next iteration of loop
IdleWait ==
    /\ pc = "idle"
    /\ trace' = Append(trace, Ev("Timer", "", polling_interval))
    /\ pc' = "set_mask"
    /\ UNCHANGED << ledBefore, tscState, activeMask, hwVars, led, attempt, result,
                    acqStarted, observedComplete >>

(***************************************************************************)
(* The peripheral.  After start() the acquisition signal fires at some     *)
(* time (end of acquisition or max count error), and the group may         *)
(* complete with some count, or never.                                      *)
(***************************************************************************)
HwSignal ==
    /\ acqStarted
    /\ ~acqSignal
    /\ acqSignal' = TRUE
    /\ UNCHANGED << ledBefore, pc, tscState, activeMask, hwStatus, hwValue, discharging,
                    led, attempt, result, trace, acqStarted, observedComplete >>

HwGroupComplete ==
    /\ acqStarted
    /\ hwStatus = "Ongoing"
    /\ \E v \in RawCounts :
          /\ hwStatus' = "Complete"
          /\ hwValue' = v
    /\ UNCHANGED << ledBefore, pc, tscState, activeMask, acqSignal, discharging, led,
                    attempt, result, trace, acqStarted, observedComplete >>

Task ==
    \/ CheckState
    \/ LedNew
    \/ SetActiveChannelsMask
    \/ Start
    \/ PollForAcquisition
    \/ DischargeIo
    \/ SettleWait
    \/ CallReadTouchValue
    \/ ForNext
    \/ GroupGetStatus
    \/ GroupGetValue
    \/ OngoingWait
    \/ ReturnNone
    \/ MatchResult
    \/ IdleWait

Next ==
    \/ CheckState
    \/ LedNew
    \/ SetActiveChannelsMask
    \/ Start
    \/ PollForAcquisition
    \/ DischargeIo
    \/ SettleWait
    \/ CallReadTouchValue
    \/ ForNext
    \/ GroupGetStatus
    \/ GroupGetValue
    \/ OngoingWait
    \/ ReturnNone
    \/ MatchResult
    \/ IdleWait
    \/ HwSignal
    \/ HwGroupComplete

Spec == Init /\ [][Next]_vars

(***************************************************************************)
(* The executor runs the task whenever it can take a step (timers expire,  *)
(* statements execute), and the peripheral fires the acquisition signal of *)
(* a started acquisition.  Nothing is assumed about group completion.      *)
(***************************************************************************)
FairSpec == Spec /\ WF_vars(Task) /\ WF_vars(HwSignal)

(***************************************************************************)
(* Reading the log.                                                         *)
(***************************************************************************)
Last(seq) == seq[Len(seq)]

CountOp(op, seq) == Cardinality({i \in DOMAIN seq : seq[i].op = op})

StatusRead(st) == Ev("group_get_status", st, 0)

PollWait == Ev("Timer", "", ongoing_delay)

\* the task is inside read_touch_value
InRoutine == pc \in {"rtv_for", "rtv_status", "rtv_value", "rtv_wait", "rtv_none"}

\* read_touch_value has returned and main has not yet matched on the result
Returned == pc = "match"

\* the operations of the current invocation of read_touch_value
RoutineTrace ==
    IF \E i \in DOMAIN trace : trace[i].op = "read_touch_value"
    THEN LET c == CHOOSE i \in DOMAIN trace : trace[i].op = "read_touch_value"
         IN  SubSeq(trace, c + 1, Len(trace))
    ELSE << >>

RECURSIVE TimeSuspended(_)
TimeSuspended(seq) ==
    IF seq = << >> THEN 0
    ELSE (IF Last(seq).op = "Timer" THEN Last(seq).n ELSE 0)
             + TimeSuspended(SubSeq(seq, 1, Len(seq) - 1))

(***************************************************************************)
(* C1: once the match on the result of read_touch_value has driven the     *)
(* LED, a value v has set it high exactly when v < SENSOR_THRESHOLD, and   *)
(* low otherwise; SENSOR_THRESHOLD - 1 gives high, SENSOR_THRESHOLD low.   *)
(***************************************************************************)
C1_TouchIffBelowThreshold ==
    (pc = "idle" /\ result # None) =>
        /\ (led = "High") <=> (result[1] < SENSOR_THRESHOLD)
        /\ (led = "Low") <=> (result[1] >= SENSOR_THRESHOLD)
        /\ (Last(trace).op = "set_high") <=> (result[1] < SENSOR_THRESHOLD)
        /\ (Last(trace).op = "set_low") <=> (result[1] >= SENSOR_THRESHOLD)
        /\ (result[1] = SENSOR_THRESHOLD - 1) => (led = "High")
        /\ (result[1] = SENSOR_THRESHOLD) => (led = "Low")

C1_Witness ==
    /\ pc = "idle"
    /\ result = Some(SENSOR_THRESHOLD - 1)
    /\ led = "High"
    /\ Last(trace).op = "set_high"

(***************************************************************************)
(* C2: group_get_value is called only when the operation just before it    *)
(* was a status read of this invocation that returned Complete, and the    *)
(* group is Complete whenever its value is read.                            *)
(***************************************************************************)
C2_ValueReadOnlyAfterComplete ==
    /\ (pc = "rtv_value") =>
          /\ RoutineTrace # << >>
          /\ Last(RoutineTrace) = StatusRead("Complete")
          /\ hwStatus = "Complete"
    /\ \A i \in DOMAIN trace :
          (trace[i].op = "group_get_value") =>
              /\ i > 1
              /\ trace[i - 1] = StatusRead("Complete")
              /\ trace[i].st = "Complete"

C2_Witness ==
    /\ pc = "match"
    /\ Last(trace).op = "group_get_value"
    /\ CountOp("group_get_status", trace) > 1

(***************************************************************************)
(* C3: when read_touch_value returns Some(v), and k is the number of       *)
(* status reads it made, then 1 <= k <= MAX_GROUP_STATUS_READ_ATTEMPTS,    *)
(* the first k - 1 reads returned Ongoing and each was followed by one     *)
(* wait, the k-th returned Complete and was followed by the value read     *)
(* that gave v and by nothing else; in every state, nothing of the         *)
(* routine follows a Complete status read but that one value read.          *)
(***************************************************************************)
C3_CompleteOnAttemptK ==
    /\ (Returned /\ result # None) =>
          LET rt == RoutineTrace
              k  == CountOp("group_get_status", rt)
          IN  /\ k \in 1 .. MAX_GROUP_STATUS_READ_ATTEMPTS
              /\ Len(rt) = 2 * k
              /\ \A j \in 1 .. (k - 1) :
                    /\ rt[2 * j - 1] = StatusRead("Ongoing")
                    /\ rt[2 * j] = PollWait
              /\ rt[2 * k - 1] = StatusRead("Complete")
              /\ rt[2 * k] = Ev("group_get_value", "Complete", result[1])
              /\ CountOp("Timer", rt) = k - 1
              /\ result[1] = hwValue
    /\ (InRoutine \/ Returned) =>
          \A i \in DOMAIN RoutineTrace :
              (RoutineTrace[i] = StatusRead("Complete")) =>
                  \A j \in (i + 1) .. Len(RoutineTrace) :
                      /\ j = i + 1
                      /\ RoutineTrace[j].op = "group_get_value"

C3_Witness ==
    /\ Returned
    /\ result = Some(5)
    /\ CountOp("group_get_status", RoutineTrace) = 3
    /\ CountOp("Timer", RoutineTrace) = 2

(***************************************************************************)
(* C4 as stated: when read_touch_value returns None it has made            *)
(* MAX_GROUP_STATUS_READ_ATTEMPTS status reads and                         *)
(* MAX_GROUP_STATUS_READ_ATTEMPTS - 1 waits.                               *)
(***************************************************************************)
C4_Original ==
    (Returned /\ result = None) =>
        /\ CountOp("group_get_status", RoutineTrace)
              = MAX_GROUP_STATUS_READ_ATTEMPTS
        /\ CountOp("Timer", RoutineTrace) = MAX_GROUP_STATUS_READ_ATTEMPTS - 1

(***************************************************************************)
(* C4 amended: when read_touch_value returns None it has made              *)
(* MAX_GROUP_STATUS_READ_ATTEMPTS status reads, all Ongoing, and           *)
(* MAX_GROUP_STATUS_READ_ATTEMPTS waits, one after every status read, the  *)
(* last one included, and no value read.                                    *)
(***************************************************************************)
C4_ExhaustionWaitsAfterEveryRead ==
    (Returned /\ result = None) =>
        LET rt == RoutineTrace
        IN  /\ Len(rt) = 2 * MAX_GROUP_STATUS_READ_ATTEMPTS
            /\ CountOp("group_get_status", rt) = MAX_GROUP_STATUS_READ_ATTEMPTS
            /\ CountOp("Timer", rt) = MAX_GROUP_STATUS_READ_ATTEMPTS
            /\ \A j \in 1 .. MAX_GROUP_STATUS_READ_ATTEMPTS :
                  /\ rt[2 * j - 1] = StatusRead("Ongoing")
                  /\ rt[2 * j] = PollWait

C4_Witness ==
    /\ Returned
    /\ result = None
    /\ Last(trace) = PollWait
    /\ CountOp("Timer", RoutineTrace) = MAX_GROUP_STATUS_READ_ATTEMPTS

(***************************************************************************)
(* C5: once the match has driven the LED in a cycle in which               *)
(* read_touch_value returned None, the LED is low and the operation was    *)
(* set_low, whatever the LED was before.                                    *)
(***************************************************************************)
C5_AbsenceIsNoTouch ==
    (pc = "idle" /\ result = None) =>
        /\ led = "Low"
        /\ Last(trace).op = "set_low"
        /\ CountOp("set_high", trace) = 0

C5_Witness ==
    /\ pc = "idle"
    /\ result = None
    /\ led = "Low"
    /\ CountOp("group_get_status", trace) = MAX_GROUP_STATUS_READ_ATTEMPTS

(***************************************************************************)
(* C6: get_state is called once, before the loop.  When it does not        *)
(* report Ready the task stops there for good: nothing can step, the mask  *)
(* was never set, no acquisition was started, no status was read and the   *)
(* LED was never created or written.  start() has only been called when    *)
(* the check saw Ready, and the loop never checks the state again.          *)
(***************************************************************************)
C6_NotReadyHaltsBeforeAcquisition ==
    /\ (tscState # "Ready") =>
          /\ pc \in {"get_state", "halted"}
          /\ ~acqStarted
          /\ activeMask = "none"
          /\ led = "Unset"
          /\ \A i \in DOMAIN trace : trace[i].op = "get_state"
    /\ (pc = "halted") =>
          /\ tscState # "Ready"
          /\ trace = << Ev("get_state", tscState, 0) >>
          /\ ~ENABLED Next
    /\ acqStarted => tscState = "Ready"
    /\ CountOp("get_state", trace) <= 1
    /\ (pc \in {"halted", "led_new"}) => CountOp("get_state", trace) = 1
    /\ (pc \notin {"get_state", "halted", "led_new", "set_mask"}) =>
          CountOp("get_state", trace) = 0

C6_Witness ==
    /\ pc = "halted"
    /\ tscState = "NotReady"
    /\ trace = << Ev("get_state", "NotReady", 0) >>

(***************************************************************************)
(* C7 as stated: whenever start() is about to be called and has been       *)
(* called before, a status read since the previous start() has returned    *)
(* Complete.                                                                *)
(***************************************************************************)
C7_RestartOnlyAfterComplete ==
    (pc = "start" /\ acqStarted) => observedComplete

(***************************************************************************)
(* C7 amended: whenever start() is about to be called and has been called  *)
(* before, the acquisition signal of the previous acquisition has fired,   *)
(* and the previous cycle either observed Complete and returned a value,   *)
(* or made MAX_GROUP_STATUS_READ_ATTEMPTS status reads without observing   *)
(* Complete and returned None.                                              *)
(***************************************************************************)
C7_RestartAfterSignalAndBoundedPolling ==
    (pc = "start" /\ acqStarted) =>
        /\ acqSignal
        /\ observedComplete <=> (result # None)
        /\ observedComplete => hwStatus = "Complete"
        /\ ~observedComplete => attempt = MAX_GROUP_STATUS_READ_ATTEMPTS

\* start() about to be called again after a cycle that never saw Complete
C7_Witness ==
    /\ pc = "start"
    /\ acqStarted
    /\ acqSignal
    /\ ~observedComplete
    /\ result = None
    /\ hwStatus = "Ongoing"

(***************************************************************************)
(* C8: in the operations since the top of the loop body there is never     *)
(* more than one start(), one poll_for_acquisition() and one               *)
(* discharge_io(), and at the Idle suspension and when it has elapsed      *)
(* there is exactly one of each, the discharge_io being discharge_io(true).*)
(***************************************************************************)
C8_OneStartPerCycle ==
    /\ CountOp("start", trace) <= 1
    /\ CountOp("poll_for_acquisition", trace) <= 1
    /\ CountOp("discharge_io", trace) <= 1
    /\ (pc = "idle" \/ (pc = "set_mask" /\ acqStarted)) =>
          /\ CountOp("start", trace) = 1
          /\ CountOp("poll_for_acquisition", trace) = 1
          /\ CountOp("discharge_io", trace) = 1
          /\ \A i \in DOMAIN trace :
                (trace[i].op = "discharge_io") => trace[i].n = 1

C8_Witness ==
    /\ pc = "set_mask"
    /\ acqStarted
    /\ Last(trace) = Ev("Timer", "", polling_interval)
    /\ CountOp("start", trace) = 1
    /\ CountOp("poll_for_acquisition", trace) = 1
    /\ CountOp("discharge_io", trace) = 1

(***************************************************************************)
(* C9: when the state check has passed, every start() is followed by the   *)
(* match that drives the LED, that by the Idle suspension and that by the  *)
(* next start(), whatever the group status does, and start() is reached    *)
(* again and again.                                                        *)
(***************************************************************************)
C9_LoopNeverHangs ==
    /\ (pc = "poll_acq") ~> (pc = "match")
    /\ (pc = "match") ~> (pc = "idle")
    /\ (pc = "idle") ~> (pc = "start")
    /\ (pc = "start") ~> (pc = "poll_acq")
    /\ [](pc = "led_new" => []<>(pc = "start"))
    /\ [](pc = "led_new" => [](pc # "halted"))

\* the loop arms again after a cycle in which the group never completed
C9_Witness ==
    /\ pc = "poll_acq"
    /\ result = None
    /\ led = "Low"
    /\ hwStatus = "Ongoing"

(***************************************************************************)
(* C10: the time one invocation of read_touch_value has spent suspended    *)
(* never exceeds MAX_GROUP_STATUS_READ_ATTEMPTS times the 1 ms wait; it is *)
(* the number of Ongoing status reads times that wait, and it reaches the  *)
(* maximum exactly when the routine returns None.                           *)
(***************************************************************************)
C10_WaitBoundedByAttempts ==
    (InRoutine \/ Returned) =>
        /\ TimeSuspended(RoutineTrace)
              <= MAX_GROUP_STATUS_READ_ATTEMPTS * ongoing_delay
        /\ Returned =>
              /\ TimeSuspended(RoutineTrace)
                    = ongoing_delay
                        * Cardinality({i \in DOMAIN RoutineTrace :
                                          RoutineTrace[i] = StatusRead("Ongoing")})
              /\ (result = None) <=>
                    (TimeSuspended(RoutineTrace)
                        = MAX_GROUP_STATUS_READ_ATTEMPTS * ongoing_delay)

C10_Witness ==
    /\ Returned
    /\ result = None
    /\ TimeSuspended(RoutineTrace) = MAX_GROUP_STATUS_READ_ATTEMPTS * ongoing_delay

(***************************************************************************)
(* C11: the task is halted only by the state check before the loop, never  *)
(* after an acquisition was started.  When the for loop of                 *)
(* read_touch_value is exhausted the routine returns None to the match,    *)
(* the match leads to the Idle suspension, that to the top of the loop     *)
(* body, and the next cycle sets the mask and starts the acquisition with  *)
(* the same effects whether the previous result was None or a value.       *)
(***************************************************************************)
C11_ExhaustionIsNotFatal ==
    /\ [](pc = "halted" => (tscState # "Ready" /\ ~acqStarted))
    /\ [][(pc = "rtv_none" /\ pc' # pc) => (pc' = "match" /\ result' = None)]_vars
    /\ [][(pc = "match" /\ pc' # pc) => pc' = "idle"]_vars
    /\ [][(pc = "idle" /\ pc' # pc) => pc' = "set_mask"]_vars
    /\ [][(pc = "set_mask" /\ pc' # pc) =>
             /\ pc' = "start"
             /\ activeMask' = "G1_IO2"
             /\ trace' = << Ev("set_active_channels_mask", "", 0) >>]_vars
    /\ [][(pc = "start" /\ pc' # pc) =>
             /\ pc' = "poll_acq"
             /\ hwStatus' = "Ongoing"
             /\ ~acqSignal'
             /\ trace' = << Ev("set_active_channels_mask", "", 0),
                            Ev("start", "", 0) >>]_vars

\* the acquisition of the next cycle started after a cycle that returned None
C11_Witness ==
    /\ pc = "poll_acq"
    /\ result = None
    /\ ledBefore # "Unset"
    /\ attempt = MAX_GROUP_STATUS_READ_ATTEMPTS
    /\ trace = << Ev("set_active_channels_mask", "", 0), Ev("start", "", 0) >>

(***************************************************************************)
(* C12: the level the match gives the LED is a function of the result of   *)
(* this cycle's read_touch_value alone: at the Idle suspension the LED is  *)
(* high when the result is a value below SENSOR_THRESHOLD and low          *)
(* otherwise, whatever the LED was before the match (high, or low) and     *)
(* whatever the earlier results were; 30 gives low, 24 high and 10 high.   *)
(***************************************************************************)
C12_DecisionIsMemoryless ==
    (pc = "idle") =>
        /\ \A before \in {"High", "Low"} :
              (ledBefore = before) =>
                  led = (IF result # None /\ result[1] < SENSOR_THRESHOLD
                         THEN "High" ELSE "Low")
        /\ ledBefore \in {"High", "Low"}
        /\ (result = Some(30)) => led = "Low"
        /\ (result = Some(24)) => led = "High"
        /\ (result = Some(10)) => led = "High"

\* a value just above the threshold turns off an LED that was on
C12_Witness ==
    /\ pc = "idle"
    /\ ledBefore = "High"
    /\ acqStarted
    /\ attempt > 0
    /\ result = Some(SENSOR_THRESHOLD + 1)
    /\ led = "Low"

(***************************************************************************)
(* C13: the operations of a cycle begin, in this order and with nothing    *)
(* between them, with set_active_channels_mask, start,                     *)
(* poll_for_acquisition, discharge_io(true), the wait of discharge_delay   *)
(* (5), the call of read_touch_value and its first status read; no status  *)
(* or value read comes earlier, and the acquisition signal has fired when  *)
(* one is made.  The wait of polling_interval (100) comes last in the      *)
(* cycle, right after the write of the LED, and only the top of the next   *)
(* loop body follows it.                                                    *)
(***************************************************************************)
CyclePrefix ==
    << Ev("set_active_channels_mask", "", 0),
       Ev("start", "", 0),
       Ev("poll_for_acquisition", "", 0),
       Ev("discharge_io", "", 1),
       Ev("Timer", "", discharge_delay),
       Ev("read_touch_value", "", 0) >>

InLoop == pc \notin {"get_state", "halted", "led_new"} /\ (pc = "set_mask" => acqStarted)

C13_OrderWithinCycle ==
    InLoop =>
        /\ \A i \in DOMAIN trace :
              /\ (i <= Len(CyclePrefix)) => trace[i] = CyclePrefix[i]
              /\ (i = Len(CyclePrefix) + 1) => trace[i].op = "group_get_status"
              /\ (trace[i].op \in {"group_get_status", "group_get_value"}) =>
                    /\ i > Len(CyclePrefix)
                    /\ acqSignal
              /\ (trace[i] = Ev("Timer", "", polling_interval)) =>
                    /\ i = Len(trace)
                    /\ i > 1
                    /\ trace[i - 1].op \in {"set_high", "set_low"}
                    /\ pc = "set_mask"
              /\ (trace[i].op \in {"set_high", "set_low"}) =>
                    /\ i > Len(CyclePrefix) + 1
                    /\ pc \in {"idle", "set_mask"}
        /\ (pc = "set_mask") => Last(trace) = Ev("Timer", "", polling_interval)
        /\ (pc = "start") => trace = SubSeq(CyclePrefix, 1, 1)
        /\ (pc = "poll_acq") => trace = SubSeq(CyclePrefix, 1, 2)
        /\ (pc = "discharge") => trace = SubSeq(CyclePrefix, 1, 3)
        /\ (pc = "settle") => trace = SubSeq(CyclePrefix, 1, 4)
        /\ (pc = "call_rtv") => trace = SubSeq(CyclePrefix, 1, 5)
        /\ (pc = "rtv_status") => Len(trace) >= Len(CyclePrefix)

\* the Idle wait of a cycle has elapsed after the whole sequence
C13_Witness ==
    /\ pc = "set_mask"
    /\ acqStarted
    /\ SubSeq(trace, 1, Len(CyclePrefix)) = CyclePrefix
    /\ trace[Len(CyclePrefix) + 1] = StatusRead("Complete")
    /\ trace[Len(trace) - 1].op = "set_high"
    /\ Last(trace) = Ev("Timer", "", polling_interval)

(***************************************************************************)
(* C14: in every cycle start() is the second operation and               *)
(* set_active_channels_mask the first, so the mask is set directly before  *)
(* each start(); no other step of the task or of the peripheral changes    *)
(* the mask, so it is untouched from start() to the end of the cycle; and  *)
(* the mask set is the sensor channel (G1 IO2) in every cycle.             *)
(***************************************************************************)
C14_MaskSetBeforeStartOnly ==
    /\ [](\A i \in DOMAIN trace :
             /\ (trace[i].op = "start") =>
                   /\ i = 2
                   /\ trace[1].op = "set_active_channels_mask"
             /\ (trace[i].op = "set_active_channels_mask") => i = 1)
    /\ [](acqStarted => activeMask = "G1_IO2")
    /\ [](pc = "start" => (activeMask = "G1_IO2" /\ Len(trace) = 1))
    /\ [][(pc # "set_mask") => (activeMask' = activeMask)]_vars
    /\ [][(pc = "set_mask" /\ pc' # pc) => (activeMask' = "G1_IO2")]_vars

\* a later cycle, its acquisition started and resolved, the mask as it was set
C14_Witness ==
    /\ pc = "match"
    /\ ledBefore # "Unset"
    /\ activeMask = "G1_IO2"
    /\ trace[1].op = "set_active_channels_mask"
    /\ trace[2].op = "start"
    /\ CountOp("set_active_channels_mask", trace) = 1

(***************************************************************************)
(* C15: a status read that returned Complete is directly followed by the   *)
(* group_get_value call: while the task stands between the two, the last   *)
(* operation is that status read, the peripheral has no step to take, and  *)
(* the only step there is reads the value of the group as it stands and    *)
(* returns it; no wait, no start() and no other operation comes between.   *)
(***************************************************************************)
C15_ValueReadDirectlyAfterComplete ==
    /\ [](\A i \in DOMAIN trace :
             (trace[i] = StatusRead("Complete") /\ i < Len(trace)) =>
                 trace[i + 1].op = "group_get_value")
    /\ [](pc = "rtv_value" =>
             /\ Last(trace) = StatusRead("Complete")
             /\ ~ENABLED HwSignal
             /\ ~ENABLED HwGroupComplete)
    /\ []((trace # << >> /\ Last(trace) = StatusRead("Complete")) =>
             pc = "rtv_value")
    /\ [][(pc = "rtv_value") =>
             /\ pc' = "match"
             /\ trace' = Append(trace, Ev("group_get_value", "Complete", hwValue))
             /\ result' = Some(hwValue)
             /\ UNCHANGED hwVars]_vars

\* Complete on the first attempt: the value read with no wait before it
C15_Witness ==
    /\ pc = "match"
    /\ attempt = 0
    /\ Len(trace) = Len(CyclePrefix) + 2
    /\ trace[Len(trace) - 1] = StatusRead("Complete")
    /\ Last(trace) = Ev("group_get_value", "Complete", hwValue)
    /\ result = Some(hwValue)

(***************************************************************************)
(* C16: after its creation the LED changes only in the step of the match   *)
(* on the result of read_touch_value; that step writes it once (set_high   *)
(* or set_low), so a cycle has no LED write before the match and exactly   *)
(* one after it, and through the Idle suspension the LED is the decision   *)
(* taken on the result of this cycle.                                       *)
(***************************************************************************)
LedWrites(seq) == CountOp("set_high", seq) + CountOp("set_low", seq)

C16_LedWrittenOnceInAct ==
    /\ [][(pc \notin {"match", "led_new"} \/ pc' = pc) => (led' = led)]_vars
    /\ [][(pc = "match" /\ pc' # pc) =>
             /\ pc' = "idle"
             /\ LedWrites(trace') = LedWrites(trace) + 1
             /\ led' = (IF Last(trace').op = "set_high" THEN "High" ELSE "Low")]_vars
    /\ [](LedWrites(trace) <= 1)
    /\ []((InLoop /\ pc \in {"idle", "set_mask"}) => LedWrites(trace) = 1)
    /\ []((InLoop /\ pc \notin {"idle", "set_mask"}) => LedWrites(trace) = 0)
    /\ [](pc = "idle" =>
             /\ Last(trace).op \in {"set_high", "set_low"}
             /\ led = (IF result # None /\ result[1] < SENSOR_THRESHOLD
                       THEN "High" ELSE "Low")
             /\ (led = "High") <=> (Last(trace).op = "set_high"))

\* the Idle suspension of a cycle that polled more than once and ended high
C16_Witness ==
    /\ pc = "idle"
    /\ led = "High"
    /\ ledBefore = "Low"
    /\ CountOp("Timer", RoutineTrace) > 0
    /\ LedWrites(trace) = 1
    /\ Last(trace).op = "set_high"

(***************************************************************************)
(* C17: once the match has run for the first time, and outside the moment  *)
(* between a return of read_touch_value and the match on it, the LED is    *)
(* high only if the last result was a value below SENSOR_THRESHOLD.        *)
(* Before the match has ever run the LED, once created, is high, its       *)
(* creation level, and it is so while no value has been read at all; before *)
(* its creation there is no LED level.                                      *)
(***************************************************************************)
C17_HighOnlyAfterTouchOrCreation ==
    /\ (ledBefore # "Unset" /\ pc # "match") =>
          /\ (led = "High") => (result # None /\ result[1] < SENSOR_THRESHOLD)
          /\ led \in {"High", "Low"}
    /\ (ledBefore = "Unset" /\ pc \notin {"get_state", "halted", "led_new"}) =>
          /\ led = "High"
          /\ (pc \notin {"match"}) =>
                /\ result = None
                /\ CountOp("group_get_value", trace) = 0
    /\ (pc \in {"get_state", "halted", "led_new"}) =>
          (led = "Unset" /\ ledBefore = "Unset")

\* a later cycle polling while the LED is still high from a value below the threshold
C17_Witness ==
    /\ pc = "rtv_wait"
    /\ ledBefore = "Low"
    /\ led = "High"
    /\ result = Some(SENSOR_THRESHOLD - Spread)

(***************************************************************************)
(* C18: a cycle never has more than MAX_GROUP_STATUS_READ_ATTEMPTS status  *)
(* reads nor more than one value read; once read_touch_value has returned  *)
(* it has at least one status read, and a value read exactly when the      *)
(* result is a value; and after a value read the cycle has no further      *)
(* operation on the controller, only the LED write and the Idle wait.      *)
(***************************************************************************)
ControllerOps ==
    { "get_state", "set_active_channels_mask", "start", "poll_for_acquisition",
      "discharge_io", "group_get_status", "group_get_value" }

C18_ReadsPerCycle ==
    /\ CountOp("group_get_status", trace) <= MAX_GROUP_STATUS_READ_ATTEMPTS
    /\ CountOp("group_get_value", trace) <= 1
    /\ (InLoop /\ pc \in {"match", "idle", "set_mask"}) =>
          /\ CountOp("group_get_status", trace)
                \in 1 .. MAX_GROUP_STATUS_READ_ATTEMPTS
          /\ (CountOp("group_get_value", trace) = 1) <=> (result # None)
    /\ \A i \in DOMAIN trace :
          (trace[i].op = "group_get_value") =>
              /\ pc \in {"match", "idle", "set_mask"}
              /\ \A j \in (i + 1) .. Len(trace) :
                    /\ trace[j].op \notin ControllerOps
                    /\ trace[j] # PollWait
                    /\ trace[j].op \in {"set_high", "set_low", "Timer"}

\* Complete on the last attempt: ten status reads, then the one value read
C18_Witness ==
    /\ pc = "idle"
    /\ CountOp("group_get_status", trace) = MAX_GROUP_STATUS_READ_ATTEMPTS
    /\ CountOp("group_get_value", trace) = 1
    /\ trace[Len(trace) - 1].op = "group_get_value"

====
